---- MODULE Spec2Model ----
(***************************************************************************)
(* Model of the interval algebra of inter-val-rs (src/src/interval.rs,     *)
(* half.rs, bound.rs, bound_type.rs).                                      *)
(*                                                                         *)
(* An Interval<T, L, R> is a pair of bounds; a bound is a limit of the     *)
(* scalar type T and a bound type.  The bound type is either one of the    *)
(* zero-sized marker types Inclusive / Exclusive (kind fixed by the Rust   *)
(* type) or a value of the enum BoundType (kind chosen at run time).  The  *)
(* marker values are written "Inclusive" / "Exclusive", the enum values    *)
(* "BoundType::Inclusive" / "BoundType::Exclusive", so that the trait      *)
(* implementation a call dispatches to can be read off the value.          *)
(*                                                                         *)
(* The library is a set of pure functions.  The state machine is a driver  *)
(* holding two live intervals a and b of the same Rust type; each action   *)
(* is one call of a public operation on them, records the call in `last`   *)
(* and keeps the intervals the call returned as the new live values.       *)
(***************************************************************************)
EXTENDS Integers, Sequences, FiniteSets, TLC

VARIABLES a, b, last

vars == <<a, b, last>>

(***************************************************************************)
(* Bounds of the model.                                                    *)
(***************************************************************************)
MaxLimit == 3

\* largest amount, in either direction, the driver dilates by
MaxDelta == 2

\* longest sequence of values handed to hull_many
MaxItems == 4

\* longest sequence of intervals handed to span_many, and their largest limit
MaxIntervals == 3
MaxManyLimit == 1

\* largest step the driver iterates by
MaxStep == 2

\* limits the driver hands to constructors
Limits == 0..MaxLimit

\* scalars of T used as probes of contains(): one below and one above Limits
Scalars == (0 - 1)..(MaxLimit + 1)

\* probes of the dense scalar type an interval is cast to: h stands for h/2
Dense == (0 - 1)..(2 * MaxLimit + 1)

(***************************************************************************)
(* Bound types.                                                            *)
(***************************************************************************)
StaticKinds == {"Inclusive", "Exclusive"}

BoundType == {"BoundType::Inclusive", "BoundType::Exclusive"}

Kinds == StaticKinds \cup BoundType

\* the Rust type of a bound-type value
TypeOf(k) == IF k \in BoundType THEN "BoundType" ELSE k

\* BoundType::is_inclusive, and the kind a marker type stands for
IsInclusive(k) == k \in {"Inclusive", "BoundType::Inclusive"}

None == [tag |-> "None"]

Some(x) == [tag |-> "Some", val |-> x]

IsSome(o) == o.tag = "Some"

Bound(l, k) == [limit |-> l, bound_type |-> k]

\* faulty variant: a flip that always answers Exclusive
FlipKindAlwaysExclusive(k) ==
    IF k \in StaticKinds THEN "Exclusive" ELSE "BoundType::Exclusive"

\* faulty variant: a bound type chosen at runtime is kept by flip
FlipKindRuntimeKept(k) ==
    CASE k = "Inclusive" -> "Exclusive"
      [] k = "Exclusive" -> "Inclusive"
      [] OTHER -> k

\* impl Flip for Inclusive / Exclusive / BoundType
FlipKind(k) ==
    CASE k = "Inclusive" -> "Exclusive"
      [] k = "Exclusive" -> "Inclusive"
      [] k = "BoundType::Inclusive" -> "BoundType::Exclusive"
      [] k = "BoundType::Exclusive" -> "BoundType::Inclusive"

\* faulty variant: the bound type is kept instead of flipped
FlipKeepsKind(bd) == bd

\* impl Flip for Bound: same limit, flipped bound type
Flip(bd) == [limit |-> bd.limit, bound_type |-> FlipKind(bd.bound_type)]

\* faulty variant: every marker type becomes the Inclusive variant
IntoGeneralKindAllInclusive(k) == "BoundType::Inclusive"

\* impl IntoGeneral for Inclusive / Exclusive
IntoGeneralKind(k) ==
    CASE k = "Inclusive" -> "BoundType::Inclusive"
      [] k = "Exclusive" -> "BoundType::Exclusive"

(***************************************************************************)
(* Boundary::less, one implementation per bound type.                      *)
(***************************************************************************)
LessInclusive(this, t) == this <= t

LessExclusive(this, t) == this < t

LessBoundType(k, this, t) ==
    IF k = "BoundType::Inclusive" THEN this <= t ELSE this < t

\* trait dispatch on the type of the bound-type value
Less(k, this, t) ==
    CASE k = "Inclusive" -> LessInclusive(this, t)
      [] k = "Exclusive" -> LessExclusive(this, t)
      [] OTHER -> LessBoundType(k, this, t)

(***************************************************************************)
(* Half-bounded sets: LeftBounded<T, B> and RightBounded<T, B>.            *)
(***************************************************************************)
LeftContains(bd, t) == Less(bd.bound_type, bd.limit, t)

RightContains(bd, t) == Less(bd.bound_type, t, bd.limit)

LeftIncludes(s, o) == s.limit <= o.limit

RightIncludes(s, o) == o.limit <= s.limit

\* Ord::cmp of the scalar type
CmpScalar(x, y) == IF x < y THEN "Less" ELSE IF x > y THEN "Greater" ELSE "Equal"

\* faulty variant: the left key ordered by the rule of the right side
CmpKeyLeftAsRight(k1, k2) ==
    IF k1 \in StaticKinds \/ IsInclusive(k1) = IsInclusive(k2)
    THEN "Equal"
    ELSE IF IsInclusive(k1) THEN "Greater" ELSE "Less"

\* Ord of the bound type as the key of a left bound
CmpKeyLeft(k1, k2) ==
    IF k1 \in StaticKinds
    THEN "Equal"
    ELSE CASE IsInclusive(k1) /\ IsInclusive(k2) -> "Equal"
           [] IsInclusive(k1) /\ ~IsInclusive(k2) -> "Less"
           [] ~IsInclusive(k1) /\ IsInclusive(k2) -> "Greater"
           [] ~IsInclusive(k1) /\ ~IsInclusive(k2) -> "Equal"

\* faulty variant: the right key ordered by the rule of the left side
CmpKeyRightAsLeft(k1, k2) ==
    IF k1 \in StaticKinds \/ IsInclusive(k1) = IsInclusive(k2)
    THEN "Equal"
    ELSE IF IsInclusive(k1) THEN "Less" ELSE "Greater"

\* Ord of the bound type as the key of a right bound
CmpKeyRight(k1, k2) ==
    IF k1 \in StaticKinds
    THEN "Equal"
    ELSE CASE IsInclusive(k1) /\ IsInclusive(k2) -> "Equal"
           [] IsInclusive(k1) /\ ~IsInclusive(k2) -> "Greater"
           [] ~IsInclusive(k1) /\ IsInclusive(k2) -> "Less"
           [] ~IsInclusive(k1) /\ ~IsInclusive(k2) -> "Equal"

\* derived lexicographic Ord of a bound: the limit first, then the key
CmpLeft(x, y) ==
    IF CmpScalar(x.limit, y.limit) # "Equal"
    THEN CmpScalar(x.limit, y.limit)
    ELSE CmpKeyLeft(x.bound_type, y.bound_type)

CmpRight(x, y) ==
    IF CmpScalar(x.limit, y.limit) # "Equal"
    THEN CmpScalar(x.limit, y.limit)
    ELSE CmpKeyRight(x.bound_type, y.bound_type)

\* faulty variant: the greater limit wins and the bound type is not compared
LeftIntersectionByLimit(s, o) == IF s.limit >= o.limit THEN s ELSE o

\* LeftBounded::intersection = Ord::max (the second argument unless the first is greater)
LeftIntersection(s, o) == IF CmpLeft(s, o) = "Greater" THEN s ELSE o

\* LeftBounded::union = Ord::min (the first argument unless it is greater)
LeftUnion(s, o) == IF CmpLeft(s, o) = "Greater" THEN o ELSE s

\* RightBounded::intersection = Ord::min
RightIntersection(s, o) == IF CmpRight(s, o) = "Greater" THEN o ELSE s

\* faulty variant: the greater limit wins and the bound type is not compared
RightUnionByLimit(s, o) == IF s.limit >= o.limit THEN s ELSE o

\* RightBounded::union = Ord::max
RightUnion(s, o) == IF CmpRight(s, o) = "Greater" THEN s ELSE o

\* LeftBounded::closure / interior and RightBounded::closure / interior
BoundClosure(bd) == [limit |-> bd.limit, bound_type |-> "Inclusive"]

BoundInterior(bd) == [limit |-> bd.limit, bound_type |-> "Exclusive"]

(***************************************************************************)
(* Interval.                                                               *)
(***************************************************************************)
Interval(l, r) == [left |-> l, right |-> r]

\* faulty variant: only the left bound is asked
IsValidIntervalLeftOnly(left, right) == LeftContains(left, right.limit)

\* faulty variant: only the right bound is asked
IsValidIntervalRightOnly(left, right) == RightContains(right, left.limit)

IsValidInterval(left, right) ==
    LeftContains(left, right.limit) /\ RightContains(right, left.limit)

\* Interval::new_ and try_new (try_new only converts the bounds)
New_(left, right) ==
    IF IsValidInterval(left, right) THEN Some(Interval(left, right)) ELSE None

TryNew(left, right) == New_(left, right)

Contains(i, t) == LeftContains(i.left, t) /\ RightContains(i.right, t)

Includes(s, o) == LeftIncludes(s.left, o.left) /\ RightIncludes(s.right, o.right)

Intersection(s, o) ==
    New_(LeftIntersection(s.left, o.left), RightIntersection(s.right, o.right))

Span(s, o) ==
    Interval(LeftUnion(s.left, o.left), RightUnion(s.right, o.right))

\* faulty variant: the bounds of the gap keep the kinds of the bounds they touch
GapNoFlip(s, o) ==
    IF IsSome(New_(s.right, o.left))
    THEN New_(s.right, o.left)
    ELSE New_(o.right, s.left)

\* faulty variant: only the ordering with self on the left is tried
GapSelfFirstOnly(s, o) == New_(Flip(s.right), Flip(o.left))

\* the right bound flipped is the left bound of the gap, and conversely
Gap(s, o) ==
    IF IsSome(New_(Flip(s.right), Flip(o.left)))
    THEN New_(Flip(s.right), Flip(o.left))
    ELSE New_(Flip(o.right), Flip(s.left))

\* Interval::union: the IntervalUnion struct
Union(s, o) == [span |-> Span(s, o), gap |-> Gap(s, o)]

\* faulty variant: the bounds of the gap are reused without flipping them back
UnionIntoIterNoFlip(u) ==
    IF IsSome(u.gap)
    THEN << [left |-> u.span.left, right |-> u.gap.val.left],
            [left |-> u.gap.val.right, right |-> u.span.right] >>
    ELSE << u.span >>

\* IntoIterator for IntervalUnion
\* faulty variant: the upper piece is yielded before the lower piece
UnionIntoIterUpperFirst(u) ==
    IF IsSome(u.gap)
    THEN << Interval(Flip(u.gap.val.right), u.span.right),
            Interval(u.span.left, Flip(u.gap.val.left)) >>
    ELSE << u.span >>

UnionIntoIter(u) ==
    IF IsSome(u.gap)
    THEN << Interval(u.span.left, Flip(u.gap.val.left)),
            Interval(Flip(u.gap.val.right), u.span.right) >>
    ELSE << u.span >>

\* Interval::lower_bound / upper_bound: the complementary half lines
LowerBound(i) == Flip(i.left)

UpperBound(i) == Flip(i.right)

\* Interval::difference: the IntervalDifference struct
Difference(s, o) ==
    [lower |-> New_(s.left, LowerBound(o)), upper |-> New_(UpperBound(o), s.right)]

\* faulty variant: the upper bound is not asked before the interval is cut
TrySplitAtNoRightCheck(s, t) ==
    IF ~LeftContains(s.left, t) THEN <<None, Some(s)>>
    ELSE << New_(s.left, Bound(t, "Exclusive")), New_(Bound(t, "Inclusive"), s.right) >>

\* Interval<T, Inclusive, Exclusive>::try_split_at
TrySplitAt(s, t) ==
    IF ~LeftContains(s.left, t) THEN <<None, Some(s)>>
    ELSE IF ~RightContains(s.right, t) THEN <<Some(s), None>>
    ELSE << New_(s.left, Bound(t, "Exclusive")), New_(Bound(t, "Inclusive"), s.right) >>

Closure(i) == Interval(BoundClosure(i.left), BoundClosure(i.right))

Interior(i) == New_(BoundInterior(i.left), BoundInterior(i.right))

\* faulty variant: the arguments are used in the order given
TryBetweenNoSwap(x, y, kl, kr) == TryNew(Bound(x, kl), Bound(y, kr))

\* Interval::try_between for the marker types kl, kr (T: Into<Bound<T, L>>)
TryBetween(x, y, kl, kr) ==
    IF x < y THEN TryNew(Bound(x, kl), Bound(y, kr)) ELSE TryNew(Bound(y, kl), Bound(x, kr))

\* Bound::cast into a dense scalar type (U: From<T>, an order embedding).  Dense
\* values are written in half units, so the scalar n of T converts to 2n halves.
CastBound(bd) == [limit |-> 2 * bd.limit, bound_type |-> bd.bound_type]

\* Interval::cast: both bounds converted, the bound types kept
Cast(i) == [left |-> CastBound(i.left), right |-> CastBound(i.right)]

\* LeftBounded::dilate: the lower bound moves down by delta, the kind is kept
LeftDilate(bd, delta) == [limit |-> bd.limit - delta, bound_type |-> bd.bound_type]

\* RightBounded::dilate: the upper bound moves up by delta, the kind is kept
RightDilate(bd, delta) == [limit |-> bd.limit + delta, bound_type |-> bd.bound_type]

\* the outcome of a call that returns v, and of a call that panics
Return(v) == [tag |-> "Return", val |-> v]
Panic == [tag |-> "Panic"]

\* Option::unwrap
Unwrap(o) == IF IsSome(o) THEN Return(o.val) ELSE Panic

\* Interval<T, Inclusive, Exclusive>::split_at: the assertion, then both parts unwrapped
SplitAt(s, t) ==
    IF ~Contains(s, t) THEN Panic
    ELSE IF Unwrap(New_(s.left, Bound(t, "Exclusive"))).tag = "Panic" THEN Panic
    ELSE IF Unwrap(New_(Bound(t, "Inclusive"), s.right)).tag = "Panic" THEN Panic
    ELSE Return(<< Unwrap(New_(s.left, Bound(t, "Exclusive"))).val,
                   Unwrap(New_(Bound(t, "Inclusive"), s.right)).val >>)

\* Interval::dilate: new_ of the dilated bounds, unwrapped
Dilate(i, delta) == Unwrap(New_(LeftDilate(i.left, delta), RightDilate(i.right, delta)))

RECURSIVE FoldSpan(_, _, _)
\* items.fold(first, |acc, item| acc.span(item)) from the i-th item on
FoldSpan(acc, items, i) ==
    IF i > Len(items) THEN acc ELSE FoldSpan(Span(acc, items[i]), items, i + 1)

\* faulty variant: the fold keeps the item and drops the accumulator
SpanManyLastOnly(items) ==
    IF Len(items) = 0 THEN None ELSE Some(items[Len(items)])

\* Interval::span_many
SpanMany(items) ==
    IF Len(items) = 0 THEN None ELSE Some(FoldSpan(items[1], items, 2))

\* Nullable(Option<T>), From<Option<T>> for Nullable<T>
NullableFrom(o) == [nullable |-> o]

\* Nullable::NULL
NULL == NullableFrom(None)

\* Sum<Interval> for Nullable<Interval>
SumIntervals(items) == NullableFrom(SpanMany(items))

RECURSIVE HullLoop(_, _, _, _)
\* the loop of hull_many from the i-th item on: the pair of left and right
HullLoop(left, right, items, i) ==
    IF i > Len(items) THEN <<left, right>>
    ELSE IF items[i] < left THEN HullLoop(items[i], right, items, i + 1)
    ELSE IF right < items[i] THEN HullLoop(left, items[i], items, i + 1)
    ELSE HullLoop(left, right, items, i + 1)

\* faulty variant: the first and the last value are taken as the ends
HullManyFirstLast(items, kl, kr) ==
    IF Len(items) = 0 THEN None
    ELSE TryNew(Bound(items[1], kl), Bound(items[Len(items)], kr))

\* Interval::hull_many for the marker types kl, kr
HullMany(items, kl, kr) ==
    IF Len(items) = 0 THEN None
    ELSE TryNew(Bound(HullLoop(items[1], items[1], items, 2)[1], kl),
                Bound(HullLoop(items[1], items[1], items, 2)[2], kr))

\* half::partial_max on two left bounds: the greater under the left order
PartialMax(x, y) == IF CmpLeft(x, y) = "Greater" THEN x ELSE y

\* half::partial_min on two right bounds: the lesser under the right order
PartialMin(x, y) == IF CmpRight(x, y) = "Less" THEN x ELSE y

\* faulty variant: only the limits of the two intervals are compared
OverlapsByLimit(s, o) ==
    s.left.limit <= o.right.limit /\ o.left.limit <= s.right.limit

\* Interval::overlaps
Overlaps(s, o) ==
    IsValidInterval(PartialMax(s.left, o.left), PartialMin(s.right, o.right))

\* Minimum for LeftBounded<T, Inclusive>
MinimumInclusive(bd) == bd.limit

\* Minimum for LeftBounded<T, Exclusive>, T an integer
MinimumExclusive(bd) == bd.limit + 1

\* Minimum for a left bound of runtime kind, T an integer
MinimumBoundType(bd) ==
    IF bd.bound_type = "BoundType::Inclusive" THEN bd.limit ELSE bd.limit + 1

\* Minimum::minimum, by the type of the bound
Minimum(bd) ==
    CASE bd.bound_type = "Inclusive" -> MinimumInclusive(bd)
      [] bd.bound_type = "Exclusive" -> MinimumExclusive(bd)
      [] OTHER -> MinimumBoundType(bd)

\* Maximum for RightBounded<T, Inclusive>
MaximumInclusive(bd) == bd.limit

\* faulty variant: the exclusive upper bound steps up instead of down
MaximumExclusiveStepsUp(bd) == bd.limit + 1

\* Maximum for RightBounded<T, Exclusive>, T an integer
MaximumExclusive(bd) == bd.limit - 1

\* Maximum for a right bound of runtime kind, T an integer
MaximumBoundType(bd) ==
    IF bd.bound_type = "BoundType::Inclusive" THEN bd.limit ELSE bd.limit - 1

\* Maximum::maximum, by the type of the bound
Maximum(bd) ==
    CASE bd.bound_type = "Inclusive" -> MaximumInclusive(bd)
      [] bd.bound_type = "Exclusive" -> MaximumExclusive(bd)
      [] OTHER -> MaximumBoundType(bd)

\* IntoGeneral for Bound: the limit kept, the marker type turned into the enum
IntoGeneralBound(bd) ==
    [limit |-> bd.limit, bound_type |-> IntoGeneralKind(bd.bound_type)]

\* Result::Ok, Result::Err
Ok(v) == [tag |-> "Ok", val |-> v]
Err(e) == [tag |-> "Err", err |-> e]

\* Option::ok_or
OkOr(o, e) == IF IsSome(o) THEN Ok(o.val) ELSE Err(e)

\* std::ops::Range start..end and std::ops::RangeInclusive start..=end
Range(start, end) == [type |-> "Range", start |-> start, end |-> end]
RangeInclusive(start, end) == [type |-> "RangeInclusive", start |-> start, end |-> end]

\* faulty variant: the end of the range is taken as an inclusive bound
TryFromRangeClosed(r) ==
    OkOr(New_(Bound(r.start, "Inclusive"), Bound(r.end, "Inclusive")), "IntervalIsEmpty")

\* TryFrom<Range<T>> for Interval<T, Inclusive, Exclusive>
TryFromRange(r) ==
    OkOr(New_(Bound(r.start, "Inclusive"), Bound(r.end, "Exclusive")), "IntervalIsEmpty")

\* TryFrom<RangeInclusive<T>> for Interval<T, Inclusive>
TryFromRangeInclusive(r) ==
    OkOr(New_(Bound(r.start, "Inclusive"), Bound(r.end, "Inclusive")), "IntervalIsEmpty")

\* From<Interval<T, Inclusive, Exclusive>> for Range<T>
IntoRange(i) == Range(i.left.limit, i.right.limit)

\* From<Interval<T, Inclusive, Inclusive>> for RangeInclusive<T>
IntoRangeInclusive(i) == RangeInclusive(i.left.limit, i.right.limit)

\* a raw float: a number, or NaN
Float(x) == [nan |-> FALSE, val |-> x]
NaN == [nan |-> TRUE, val |-> 0]

\* NotNan::new as the converters call it: the number, or FloatIsNan
NotNanNew(f) == IF f.nan THEN Err("FloatIsNan") ELSE Ok(f.val)

\* faulty variant: NaN is let through as a number
IntoNotNanBoundaryUnchecked(f, k) == Ok(<<f.val, k>>)

\* IntoNotNanBound::into_not_nan_boundary for (T, B): NotNan::new(t).map(|t| (t, b))
IntoNotNanBoundary(f, k) ==
    IF NotNanNew(f).tag = "Ok" THEN Ok(<<NotNanNew(f).val, k>>) ELSE NotNanNew(f)

\* Interval::not_nan: both endpoints are made NotNan, then the interval is built
NotNanInterval(f, kl, g, kr) ==
    IF IntoNotNanBoundary(f, kl).tag = "Err" THEN IntoNotNanBoundary(f, kl)
    ELSE IF IntoNotNanBoundary(g, kr).tag = "Err" THEN IntoNotNanBoundary(g, kr)
    ELSE OkOr(New_(Bound(IntoNotNanBoundary(f, kl).val[1], IntoNotNanBoundary(f, kl).val[2]),
                   Bound(IntoNotNanBoundary(g, kr).val[1], IntoNotNanBoundary(g, kr).val[2])),
              "IntervalIsEmpty")

\* Scalar<T> for NotNan<T>: scalar_partial_cmp
ScalarPartialCmp(x, t) ==
    IF NotNanNew(t).tag = "Ok" THEN Some(CmpScalar(x, NotNanNew(t).val)) ELSE None

\* Scalar::scalar_lt, scalar_le, scalar_gt, scalar_ge
ScalarLt(x, t) == ScalarPartialCmp(x, t) = Some("Less")
ScalarLe(x, t) ==
    IF IsSome(ScalarPartialCmp(x, t)) THEN ScalarPartialCmp(x, t).val # "Greater" ELSE FALSE
ScalarGt(x, t) == ScalarPartialCmp(x, t) = Some("Greater")
ScalarGe(x, t) ==
    IF IsSome(ScalarPartialCmp(x, t)) THEN ScalarPartialCmp(x, t).val # "Less" ELSE FALSE

\* contains of a raw float probe: each bound compares its limit with the probe
ContainsFloat(i, t) ==
    /\ IF IsInclusive(i.left.bound_type)
       THEN ScalarLe(i.left.limit, t) ELSE ScalarLt(i.left.limit, t)
    /\ IF IsInclusive(i.right.bound_type)
       THEN ScalarGe(i.right.limit, t) ELSE ScalarGt(i.right.limit, t)

\* IntoGeneral for Interval
IntoGeneralInterval(i) ==
    Interval(IntoGeneralBound(i.left), IntoGeneralBound(i.right))

\* LeftBounded::step_by(step).next(): the limit if the bound admits it, else the
\* limit moved up by one step
LeftStepFirst(bd, step) ==
    IF LeftContains(bd, bd.limit) THEN bd.limit ELSE bd.limit + step

\* RightBounded::step_rev_by(step).next(): the limit if the bound admits it, else
\* the limit moved down by one step
RightStepRevFirst(bd, step) ==
    IF RightContains(bd, bd.limit) THEN bd.limit ELSE bd.limit - step

\* iteration of the RangeInclusive first..=last
IterRangeInclusive(first, end) ==
    IF first > end THEN <<>> ELSE [n \in 1..(end - first + 1) |-> first + n - 1]

\* faulty variant: the range runs between the limits themselves
IntoIterOverLimits(i) == IterRangeInclusive(i.left.limit, i.right.limit)

\* IntoIterator for Interval over an integer type
IntoIter(i) ==
    IterRangeInclusive(LeftStepFirst(i.left, 1), RightStepRevFirst(i.right, 1))

RECURSIVE TakeWhileUp(_, _, _)
\* t, t + step, ... while the upper bound admits the value (take_while)
TakeWhileUp(t, step, right) ==
    IF RightContains(right, t) THEN <<t>> \o TakeWhileUp(t + step, step, right) ELSE <<>>

RECURSIVE TakeWhileDown(_, _, _)
\* t, t - step, ... while the lower bound admits the value (take_while)
TakeWhileDown(t, step, left) ==
    IF LeftContains(left, t) THEN <<t>> \o TakeWhileDown(t - step, step, left) ELSE <<>>

\* faulty variant: values are taken up to the upper limit itself
StepByUpToLimit(i, step) ==
    TakeWhileUp(LeftStepFirst(i.left, step), step, BoundClosure(i.right))

\* Interval::step_by for a positive step
StepBy(i, step) == TakeWhileUp(LeftStepFirst(i.left, step), step, i.right)

\* Interval::step_rev_by for a positive step
StepRevBy(i, step) == TakeWhileDown(RightStepRevFirst(i.right, step), step, i.left)

\* Interval::min: the minimum of the left bound
Min(i) == Minimum(i.left)

\* Interval::max: the maximum of the right bound
Max(i) == Maximum(i.right)

\* the float h, written in half units, truncated towards zero
Trunc(h) == IF h >= 0 THEN h \div 2 ELSE 0 - ((0 - h) \div 2)

\* num::cast from the dense (float) type into the integer type whose values are
\* Limits: None outside MIN - 1 < x < MAX + 1, and x truncated inside
NumCast(h) ==
    IF (0 - 2) < h /\ h < 2 * MaxLimit + 2 THEN Some(Trunc(h)) ELSE None

\* Bound::try_cast: the limit converted, the bound type kept
TryCastBound(bd) ==
    IF IsSome(NumCast(bd.limit))
    THEN Some([limit |-> NumCast(bd.limit).val, bound_type |-> bd.bound_type])
    ELSE None

\* Interval::try_cast: both bounds converted, None when either conversion fails
TryCast(i) ==
    IF IsSome(TryCastBound(i.left)) /\ IsSome(TryCastBound(i.right))
    THEN Some([left |-> TryCastBound(i.left).val, right |-> TryCastBound(i.right).val])
    ELSE None

(***************************************************************************)
(* The driver.                                                             *)
(***************************************************************************)
\* the Rust type Interval<T, L, R> of a value
TypeOfInterval(i) == <<TypeOf(i.left.bound_type), TypeOf(i.right.bound_type)>>

SameType(i, j) == TypeOfInterval(i) = TypeOfInterval(j)

\* the driver is instantiated for marker types on both sides or BoundType on both
KindPairs ==
    (StaticKinds \X StaticKinds) \cup (BoundType \X BoundType)

\* the bound types a value of the Rust bound type ty can have
KindsOfType(ty) == IF ty = "BoundType" THEN BoundType ELSE {ty}

\* every interval a constructor accepts
Intervals ==
    { Interval(Bound(l, kp[1]), Bound(r, kp[2])) :
        <<l, r, kp>> \in { x \in Limits \X Limits \X KindPairs :
                             IsValidInterval(Bound(x[1], x[3][1]), Bound(x[2], x[3][2])) } }

TypeOK ==
    /\ a \in [left : [limit : Int, bound_type : Kinds], right : [limit : Int, bound_type : Kinds]]
    /\ b \in [left : [limit : Int, bound_type : Kinds], right : [limit : Int, bound_type : Kinds]]
    /\ SameType(a, b)

Init ==
    /\ a \in Intervals
    /\ b \in Intervals
    /\ SameType(a, b)
    /\ last = [op |-> "init", made |-> {}]

\* the intervals an Option<Interval> holds
OptSet(o) == IF IsSome(o) THEN {o.val} ELSE {}

\* keep a returned interval: it replaces b, and a too when its type differs
Keep(r) ==
    /\ b' = r
    /\ a' = IF SameType(r, a) THEN a ELSE r

KeepOpt(o) == IF IsSome(o) THEN Keep(o.val) ELSE UNCHANGED <<a, b>>

\* Interval::try_new in the driver's type, on limits of the live intervals
DoTryNew ==
    \E l \in {a.left.limit, a.right.limit}, r \in {b.left.limit, b.right.limit} :
      \E kl \in KindsOfType(TypeOf(a.left.bound_type)),
         kr \in KindsOfType(TypeOf(a.right.bound_type)) :
        /\ last' = [op |-> "try_new", left |-> Bound(l, kl), right |-> Bound(r, kr),
                    out |-> TryNew(Bound(l, kl), Bound(r, kr)),
                    made |-> OptSet(TryNew(Bound(l, kl), Bound(r, kr)))]
        /\ KeepOpt(TryNew(Bound(l, kl), Bound(r, kr)))

\* Interval::try_between, defined for the marker types
DoTryBetween ==
    /\ TypeOf(a.left.bound_type) \in StaticKinds
    /\ \E x \in {a.left.limit, a.right.limit}, y \in {b.left.limit, b.right.limit} :
        /\ last' = [op |-> "try_between", x |-> x, y |-> y,
                    kl |-> a.left.bound_type, kr |-> a.right.bound_type,
                    out |-> TryBetween(x, y, a.left.bound_type, a.right.bound_type),
                    made |-> OptSet(TryBetween(x, y, a.left.bound_type, a.right.bound_type))]
        /\ KeepOpt(TryBetween(x, y, a.left.bound_type, a.right.bound_type))

\* Interval::contains
DoContains ==
    \E t \in Scalars :
        /\ last' = [op |-> "contains", a |-> a, t |-> t, out |-> Contains(a, t), made |-> {}]
        /\ UNCHANGED <<a, b>>

\* Interval::includes
DoIncludes ==
    /\ last' = [op |-> "includes", a |-> a, b |-> b, out |-> Includes(a, b), made |-> {}]
    /\ UNCHANGED <<a, b>>

\* Ord::cmp of two left bounds (a left bound is Interval::left or Interval::upper_bound)
DoCmpLeft ==
    \E x \in {a.left, UpperBound(a)}, y \in {b.left, UpperBound(b)} :
        /\ TypeOf(x.bound_type) = TypeOf(y.bound_type)
        /\ last' = [op |-> "cmp", side |-> "Left", x |-> x, y |-> y,
                    out |-> CmpLeft(x, y), made |-> {}]
        /\ UNCHANGED <<a, b>>

\* Ord::cmp of two right bounds (a right bound is Interval::right or Interval::lower_bound)
DoCmpRight ==
    \E x \in {a.right, LowerBound(a)}, y \in {b.right, LowerBound(b)} :
        /\ TypeOf(x.bound_type) = TypeOf(y.bound_type)
        /\ last' = [op |-> "cmp", side |-> "Right", x |-> x, y |-> y,
                    out |-> CmpRight(x, y), made |-> {}]
        /\ UNCHANGED <<a, b>>

\* Interval::intersection
DoIntersection ==
    /\ last' = [op |-> "intersection", a |-> a, b |-> b, out |-> Intersection(a, b),
                made |-> OptSet(Intersection(a, b))]
    /\ KeepOpt(Intersection(a, b))

\* Interval::span
DoSpan ==
    /\ last' = [op |-> "span", a |-> a, b |-> b, out |-> Span(a, b), made |-> {Span(a, b)}]
    /\ Keep(Span(a, b))

\* Interval::gap
DoGap ==
    /\ last' = [op |-> "gap", a |-> a, b |-> b, out |-> Gap(a, b), made |-> OptSet(Gap(a, b))]
    /\ KeepOpt(Gap(a, b))

\* Interval::union followed by IntervalUnion::into_iter
DoUnion ==
    /\ last' = [op |-> "union", a |-> a, b |-> b, union |-> Union(a, b),
                out |-> UnionIntoIter(Union(a, b)),
                made |-> {UnionIntoIter(Union(a, b))[n] : n \in 1..Len(UnionIntoIter(Union(a, b)))}]
    /\ IF Len(UnionIntoIter(Union(a, b))) = 2
       THEN a' = UnionIntoIter(Union(a, b))[1] /\ b' = UnionIntoIter(Union(a, b))[2]
       ELSE Keep(UnionIntoIter(Union(a, b))[1])

\* the types for which L::Flip = R and R::Flip = L
FlipSymmetric(i) ==
    TypeOfInterval(i) \in {<<"Inclusive", "Exclusive">>, <<"Exclusive", "Inclusive">>,
                           <<"BoundType", "BoundType">>}

\* Interval::difference
DoDifference ==
    /\ FlipSymmetric(a)
    /\ last' = [op |-> "difference", a |-> a, b |-> b, out |-> Difference(a, b),
                made |-> OptSet(Difference(a, b).lower) \cup OptSet(Difference(a, b).upper)]
    /\ a' = IF IsSome(Difference(a, b).lower) THEN Difference(a, b).lower.val ELSE a
    /\ b' = IF IsSome(Difference(a, b).upper) THEN Difference(a, b).upper.val ELSE b

\* Interval<T, Inclusive, Exclusive>::try_split_at
DoTrySplitAt ==
    /\ TypeOfInterval(a) = <<"Inclusive", "Exclusive">>
    /\ \E t \in Scalars :
        /\ last' = [op |-> "try_split_at", a |-> a, t |-> t, out |-> TrySplitAt(a, t),
                    made |-> OptSet(TrySplitAt(a, t)[1]) \cup OptSet(TrySplitAt(a, t)[2])]
        /\ a' = IF IsSome(TrySplitAt(a, t)[1]) THEN TrySplitAt(a, t)[1].val ELSE a
        /\ b' = IF IsSome(TrySplitAt(a, t)[2]) THEN TrySplitAt(a, t)[2].val ELSE b

\* Interval<T, Inclusive, Exclusive>::split_at
DoSplitAt ==
    /\ TypeOfInterval(a) = <<"Inclusive", "Exclusive">>
    /\ \E t \in Scalars :
        LET out == SplitAt(a, t) IN
        /\ last' = [op |-> "split_at", a |-> a, t |-> t, out |-> out,
                    made |-> IF out.tag = "Return" THEN {out.val[1], out.val[2]} ELSE {}]
        /\ a' = IF out.tag = "Return" THEN out.val[1] ELSE a
        /\ b' = IF out.tag = "Return" THEN out.val[2] ELSE b

\* Interval::closure
DoClosure ==
    /\ last' = [op |-> "closure", a |-> a, out |-> Closure(a), made |-> {Closure(a)}]
    /\ Keep(Closure(a))

\* Interval::interior
DoInterior ==
    /\ last' = [op |-> "interior", a |-> a, out |-> Interior(a), made |-> OptSet(Interior(a))]
    /\ KeepOpt(Interior(a))

\* Interval::overlaps
DoOverlaps ==
    /\ last' = [op |-> "overlaps", a |-> a, b |-> b, out |-> Overlaps(a, b), made |-> {}]
    /\ UNCHANGED <<a, b>>

\* a.left.minimum()
DoMinimum ==
    /\ last' = [op |-> "minimum", bound |-> a.left, out |-> Minimum(a.left), made |-> {}]
    /\ UNCHANGED <<a, b>>

\* a.right.maximum()
DoMaximum ==
    /\ last' = [op |-> "maximum", bound |-> a.right, out |-> Maximum(a.right), made |-> {}]
    /\ UNCHANGED <<a, b>>

\* (start..end).try_into(), and the interval converted back into a Range
DoTryFromRange ==
    \E start \in {a.left.limit, a.right.limit}, end \in {b.left.limit, b.right.limit} :
        LET out == TryFromRange(Range(start, end)) IN
        /\ last' = [op |-> "try_from_range", r |-> Range(start, end), out |-> out,
                    back |-> IF out.tag = "Ok" THEN Some(IntoRange(out.val)) ELSE None,
                    made |-> IF out.tag = "Ok" THEN {out.val} ELSE {}]
        /\ IF out.tag = "Ok" THEN Keep(out.val) ELSE UNCHANGED <<a, b>>

\* (start..=end).try_into(), and the interval converted back into a RangeInclusive
DoTryFromRangeInclusive ==
    \E start \in {a.left.limit, a.right.limit}, end \in {b.left.limit, b.right.limit} :
        LET out == TryFromRangeInclusive(RangeInclusive(start, end)) IN
        /\ last' = [op |-> "try_from_range_inclusive", r |-> RangeInclusive(start, end),
                    out |-> out,
                    back |-> IF out.tag = "Ok" THEN Some(IntoRangeInclusive(out.val)) ELSE None,
                    made |-> IF out.tag = "Ok" THEN {out.val} ELSE {}]
        /\ IF out.tag = "Ok" THEN Keep(out.val) ELSE UNCHANGED <<a, b>>

\* the amounts the driver dilates by
Deltas == (0 - MaxDelta)..MaxDelta

\* a.dilate(delta); the driver keeps the result while its limits are ones it uses
DoDilate ==
    \E delta \in Deltas :
        LET out == Dilate(a, delta) IN
        /\ last' = [op |-> "dilate", a |-> a, delta |-> delta, out |-> out,
                    made |-> IF out.tag = "Return" THEN {out.val} ELSE {}]
        /\ IF /\ out.tag = "Return"
              /\ out.val.left.limit \in Limits
              /\ out.val.right.limit \in Limits
           THEN Keep(out.val)
           ELSE UNCHANGED <<a, b>>

\* the raw floats the driver uses: the live limits and NaN
Floats == { Float(x) : x \in {a.left.limit, a.right.limit, b.left.limit, b.right.limit} }
              \cup {NaN}

\* Interval::not_nan(f, g) for the type of a
DoNotNan ==
    \E f \in Floats, g \in Floats :
        LET out == NotNanInterval(f, a.left.bound_type, g, a.right.bound_type) IN
        /\ last' = [op |-> "not_nan", f |-> f, g |-> g,
                    kl |-> a.left.bound_type, kr |-> a.right.bound_type, out |-> out,
                    made |-> IF out.tag = "Ok" THEN {out.val} ELSE {}]
        /\ IF out.tag = "Ok" THEN Keep(out.val) ELSE UNCHANGED <<a, b>>

\* the comparisons of the left limit of a with a raw float probe, and a.contains
DoScalarCmp ==
    \E t \in Floats :
        /\ last' = [op |-> "scalar_cmp", a |-> a, t |-> t,
                    lt |-> ScalarLt(a.left.limit, t), le |-> ScalarLe(a.left.limit, t),
                    gt |-> ScalarGt(a.left.limit, t), ge |-> ScalarGe(a.left.limit, t),
                    out |-> ContainsFloat(a, t), made |-> {}]
        /\ UNCHANGED <<a, b>>

\* Flip for Left and Right: the opposite side
FlipSide(side) == IF side = "Left" THEN "Right" ELSE "Left"

\* contains of a bound of the given side
SideContains(side, bd, t) ==
    IF side = "Left" THEN LeftContains(bd, t) ELSE RightContains(bd, t)

\* a bound of a flipped, and the result flipped again
DoFlip ==
    \E side \in {"Left", "Right"} :
        LET bd == IF side = "Left" THEN a.left ELSE a.right IN
        /\ last' = [op |-> "flip", side |-> side, bound |-> bd,
                    out_side |-> FlipSide(side), out |-> Flip(bd),
                    back_side |-> FlipSide(FlipSide(side)), back |-> Flip(Flip(bd)),
                    made |-> {}]
        /\ UNCHANGED <<a, b>>

\* a.into_general() and b.into_general(); the driver goes on with the results
DoIntoGeneral ==
    /\ TypeOf(a.left.bound_type) \in StaticKinds
    /\ TypeOf(a.right.bound_type) \in StaticKinds
    /\ last' = [op |-> "into_general", a |-> a, b |-> b,
                out |-> IntoGeneralInterval(a), outb |-> IntoGeneralInterval(b),
                made |-> {IntoGeneralInterval(a), IntoGeneralInterval(b)}]
    /\ a' = IntoGeneralInterval(a)
    /\ b' = IntoGeneralInterval(b)

\* a.into_iter().collect()
DoIntoIter ==
    /\ last' = [op |-> "into_iter", a |-> a, out |-> IntoIter(a), made |-> {}]
    /\ UNCHANGED <<a, b>>

Steps == 1..MaxStep

\* a.step_by(step).collect()
DoStepBy ==
    \E step \in Steps :
        /\ last' = [op |-> "step_by", a |-> a, step |-> step, out |-> StepBy(a, step),
                    made |-> {}]
        /\ UNCHANGED <<a, b>>

\* a.step_rev_by(step).collect()
DoStepRevBy ==
    \E step \in Steps :
        /\ last' = [op |-> "step_rev_by", a |-> a, step |-> step,
                    out |-> StepRevBy(a, step), made |-> {}]
        /\ UNCHANGED <<a, b>>

\* a.min() and a.max(), as NDim::min_val and NDim::max_val take them per axis
DoMinMax ==
    /\ last' = [op |-> "min_max", a |-> a, min |-> Min(a), max |-> Max(a), made |-> {}]
    /\ UNCHANGED <<a, b>>

\* a.cast::<U>() into the dense type
DoCast ==
    /\ last' = [op |-> "cast", a |-> a, out |-> Cast(a), made |-> {}]
    /\ UNCHANGED <<a, b>>

\* the fractions of a unit, in half units, by which the driver moves the limits
\* of a float interval off the integers
Fractions == 0..2

\* src.try_cast::<U>() for a valid float interval src that has the kinds of a and
\* limits within a unit above those of a
DoTryCast ==
    \E dl \in Fractions, dr \in Fractions :
        LET src == [left  |-> Bound(2 * a.left.limit + dl, a.left.bound_type),
                    right |-> Bound(2 * a.right.limit + dr, a.right.bound_type)] IN
        /\ IsValidInterval(src.left, src.right)
        /\ last' = [op |-> "try_cast", src |-> src, out |-> TryCast(src), made |-> {}]
        /\ UNCHANGED <<a, b>>

\* the driver exchanges its two live intervals
DoSwap ==
    /\ a' = b
    /\ b' = a
    /\ last' = [op |-> "swap", made |-> {}]

(***************************************************************************)
(* The driver of the operations on sequences: one call on a sequence that  *)
(* starts with the live interval a, or on a sequence of values.            *)
(***************************************************************************)
ManyLimits == 0..MaxManyLimit

ManyIntervals ==
    { Interval(Bound(x[1], x[3][1]), Bound(x[2], x[3][2])) :
        x \in { y \in ManyLimits \X ManyLimits \X KindPairs :
                  IsValidInterval(Bound(y[1], y[3][1]), Bound(y[2], y[3][2])) } }

SeqsUpTo(S, n) == UNION { [1..k -> S] : k \in 0..n }

\* the sequences of intervals of the type of a that are empty or start with a
ItemsFrom(i) ==
    { items \in SeqsUpTo({ j \in ManyIntervals : SameType(i, j) }, MaxIntervals) :
        Len(items) = 0 \/ items[1] = i }

InitMany ==
    /\ a \in ManyIntervals
    /\ b = a
    /\ last = [op |-> "init", made |-> {}]

\* Interval::span_many(items)
DoSpanMany ==
    /\ last.op = "init"
    /\ \E items \in ItemsFrom(a) :
        last' = [op |-> "span_many", items |-> items, out |-> SpanMany(items),
                 made |-> OptSet(SpanMany(items))]
    /\ UNCHANGED <<a, b>>

\* items.into_iter().sum::<Nullable<Interval>>()
DoSumIntervals ==
    /\ last.op = "init"
    /\ \E items \in ItemsFrom(a) :
        last' = [op |-> "sum", items |-> items, out |-> SumIntervals(items),
                 made |-> OptSet(SumIntervals(items).nullable)]
    /\ UNCHANGED <<a, b>>

\* Interval::hull_many(values) for the type of a
DoHullMany ==
    /\ last.op = "init"
    /\ TypeOf(a.left.bound_type) \in StaticKinds
    /\ \E items \in SeqsUpTo(Limits, MaxItems) :
        last' = [op |-> "hull_many", items |-> items,
                 kl |-> a.left.bound_type, kr |-> a.right.bound_type,
                 out |-> HullMany(items, a.left.bound_type, a.right.bound_type),
                 made |-> OptSet(HullMany(items, a.left.bound_type, a.right.bound_type))]
    /\ UNCHANGED <<a, b>>

NextMany ==
    \/ DoSpanMany
    \/ DoSumIntervals
    \/ DoHullMany

SpecMany == InitMany /\ [][NextMany]_vars

Next ==
    \/ DoTryNew
    \/ DoTryBetween
    \/ DoTryFromRange
    \/ DoTryFromRangeInclusive
    \/ DoNotNan
    \/ DoContains
    \/ DoScalarCmp
    \/ DoIncludes
    \/ DoOverlaps
    \/ DoMinimum
    \/ DoMaximum
    \/ DoMinMax
    \/ DoCast
    \/ DoTryCast
    \/ DoFlip
    \/ DoIntoGeneral
    \/ DoIntoIter
    \/ DoStepBy
    \/ DoStepRevBy
    \/ DoCmpLeft
    \/ DoCmpRight
    \/ DoIntersection
    \/ DoSpan
    \/ DoGap
    \/ DoUnion
    \/ DoDifference
    \/ DoTrySplitAt
    \/ DoSplitAt
    \/ DoClosure
    \/ DoInterior
    \/ DoDilate
    \/ DoSwap

Spec == Init /\ [][Next]_vars

(***************************************************************************)
(* Properties.  A probe of contains() is a scalar of T (Scalars) or a      *)
(* point of the dense type the interval casts to (Dense), which stands for *)
(* the real line between the limits.                                       *)
(***************************************************************************)
\* left.contains(right.limit) and right.contains(left.limit)
NonEmpty(i) ==
    /\ LeftContains(i.left, i.right.limit)
    /\ RightContains(i.right, i.left.limit)

\* the point h of the dense type is a member of i
ContainsDense(i, h) == Contains(Cast(i), h)

\* h lies beyond the right end of s and before the left end of o
StrictlyBetween(s, o, h) ==
    /\ ~RightContains(CastBound(s.right), h)
    /\ ~LeftContains(CastBound(o.left), h)

Reverse(c) == CASE c = "Less" -> "Greater" [] c = "Greater" -> "Less" [] OTHER -> "Equal"

Cmp(side, x, y) == IF side = "Left" THEN CmpLeft(x, y) ELSE CmpRight(x, y)

Le(side, x, y) == Cmp(side, x, y) \in {"Less", "Equal"}

\* the bounds of the Rust type of bd with a limit the driver uses
BoundsLike(bd) ==
    { Bound(l, k) : l \in Limits, k \in KindsOfType(TypeOf(bd.bound_type)) }

\* C1: every live interval, and every interval the last call returned (span,
\* closure and IntervalUnion::into_iter included, which build the struct without
\* the validity check), satisfies left.contains(right.limit) and
\* right.contains(left.limit).
C1_NonEmptyInvariant == \A i \in {a, b} \cup last.made : NonEmpty(i)

\* C1 witness: into_iter of a union with a gap has rebuilt two intervals
C1_Witness == last.op = "union" /\ Len(last.out) = 2

\* C2: try_new succeeds exactly when the lower limit is below the upper limit, or
\* the limits are equal and both bound types are inclusive; otherwise it returns
\* None and produces no interval.  The driver calls it for the marker types and
\* for BoundType.
C2_ConstructionIff ==
    last.op = "try_new" =>
        /\ IsSome(last.out) <=>
              \/ last.left.limit < last.right.limit
              \/ /\ last.left.limit = last.right.limit
                 /\ IsInclusive(last.left.bound_type)
                 /\ IsInclusive(last.right.bound_type)
        /\ IsSome(last.out) => last.out.val = Interval(last.left, last.right)
        /\ ~IsSome(last.out) => last.out = None /\ last.made = {}

\* C2 witness: [3, 3) with marker types is refused
C2_Witness ==
    /\ last.op = "try_new"
    /\ last.left = Bound(3, "Inclusive")
    /\ last.right = Bound(3, "Exclusive")
    /\ last.out = None

\* C3 as stated: try_new succeeds exactly when some scalar of T is contained by
\* both bounds, and then contains(t) is the conjunction of the bounds' contains.
C3_Original ==
    last.op = "try_new" =>
        /\ IsSome(last.out) <=>
              \E t \in Scalars : LeftContains(last.left, t) /\ RightContains(last.right, t)
        /\ IsSome(last.out) =>
              \A t \in Scalars :
                  Contains(last.out.val, t) <=>
                      (LeftContains(last.left, t) /\ RightContains(last.right, t))

\* C3 amended: try_new succeeds exactly when some point of the real line (a point
\* of the dense type the bounds cast to) is contained by both bounds; a scalar of
\* T contained by both bounds is sufficient but not necessary; and on success
\* contains(t) is the conjunction of the bounds' contains for every t.
C3_Amended ==
    last.op = "try_new" =>
        /\ IsSome(last.out) <=>
              \E h \in Dense :
                  /\ LeftContains(CastBound(last.left), h)
                  /\ RightContains(CastBound(last.right), h)
        /\ (\E t \in Scalars : LeftContains(last.left, t) /\ RightContains(last.right, t))
              => IsSome(last.out)
        /\ IsSome(last.out) =>
              /\ \A t \in Scalars :
                    Contains(last.out.val, t) <=>
                        (LeftContains(last.left, t) /\ RightContains(last.right, t))
              /\ \A h \in Dense :
                    ContainsDense(last.out.val, h) <=>
                        /\ LeftContains(CastBound(last.left), h)
                        /\ RightContains(CastBound(last.right), h)

\* C3 witness: an interval such as (0, 1) was built although it contains no scalar of T
C3_Witness ==
    /\ last.op = "try_new"
    /\ IsSome(last.out)
    /\ ~\E t \in Scalars : LeftContains(last.left, t) /\ RightContains(last.right, t)

\* the ordering the claim C4 describes
C4_Expected(side, x, y) ==
    IF x.limit < y.limit THEN "Less"
    ELSE IF x.limit > y.limit THEN "Greater"
    ELSE IF IsInclusive(x.bound_type) = IsInclusive(y.bound_type) THEN "Equal"
    ELSE IF (side = "Left") = IsInclusive(x.bound_type) THEN "Less"
    ELSE "Greater"

\* C4: bounds of one side with different limits order by limit; at equal limits
\* Inclusive is less than Exclusive on the left, greater on the right, and equal
\* kinds are Equal; the relation is a total order on each side (Equal only for
\* identical bounds, antisymmetric, transitive).
C4_SideOrdering ==
    last.op = "cmp" =>
        /\ last.out = C4_Expected(last.side, last.x, last.y)
        /\ (last.out = "Equal") <=> (last.x = last.y)
        /\ Cmp(last.side, last.y, last.x) = Reverse(last.out)
        /\ \A z \in BoundsLike(last.x) :
              (last.out \in {"Less", "Equal"} /\ Le(last.side, last.y, z))
                  => Le(last.side, last.x, z)

\* C4 witness: on the right side Inclusive was compared with Exclusive at one limit
C4_Witness ==
    /\ last.op = "cmp"
    /\ last.side = "Right"
    /\ last.x.limit = last.y.limit
    /\ last.x.bound_type = "BoundType::Inclusive"
    /\ last.y.bound_type = "BoundType::Exclusive"
    /\ last.out = "Greater"

\* C5: intersection is set intersection: Some(c) contains exactly the probes both
\* operands contain, None means no probe is in both, and the bounds of c are the
\* greatest left bound and the least right bound under the side orders.
C5_IntersectionIsMeet ==
    last.op = "intersection" =>
        /\ IsSome(last.out) =>
              /\ \A t \in Scalars :
                    Contains(last.out.val, t) <=> (Contains(last.a, t) /\ Contains(last.b, t))
              /\ \A h \in Dense :
                    ContainsDense(last.out.val, h) <=>
                        (ContainsDense(last.a, h) /\ ContainsDense(last.b, h))
              /\ last.out.val.left \in {last.a.left, last.b.left}
              /\ Le("Left", last.a.left, last.out.val.left)
              /\ Le("Left", last.b.left, last.out.val.left)
              /\ last.out.val.right \in {last.a.right, last.b.right}
              /\ Le("Right", last.out.val.right, last.a.right)
              /\ Le("Right", last.out.val.right, last.b.right)
        /\ ~IsSome(last.out) =>
              /\ \A t \in Scalars : ~(Contains(last.a, t) /\ Contains(last.b, t))
              /\ \A h \in Dense : ~(ContainsDense(last.a, h) /\ ContainsDense(last.b, h))

\* C5 witness: the operands share the left limit with different runtime kinds
C5_Witness ==
    /\ last.op = "intersection"
    /\ IsSome(last.out)
    /\ last.a.left.limit = last.b.left.limit
    /\ last.a.left.bound_type = "BoundType::Inclusive"
    /\ last.b.left.bound_type = "BoundType::Exclusive"

\* C6: a.intersection(a) = Some(a), and a.intersection(b) = b.intersection(a),
\* limits and kinds alike.
C6_IntersectionIdempotentCommutative ==
    last.op = "intersection" =>
        /\ last.a = last.b => last.out = Some(last.a)
        /\ last.out = Intersection(last.b, last.a)

\* C6 witness: equal limits on both sides, different runtime kinds on both sides
C6_Witness ==
    /\ last.op = "intersection"
    /\ last.a.left.limit = last.b.left.limit
    /\ last.a.right.limit = last.b.right.limit
    /\ last.a.left.bound_type = "BoundType::Exclusive"
    /\ last.b.left.bound_type = "BoundType::Inclusive"
    /\ last.a.right.bound_type = "BoundType::Inclusive"
    /\ last.b.right.bound_type = "BoundType::Exclusive"
    /\ IsSome(last.out)

\* C7: a.span(a) = a, a.span(b) = b.span(a), every probe in a or in b is in
\* a.span(b), and the span is never empty.
C7_SpanIdempotentCommutativeCovering ==
    last.op = "span" =>
        /\ last.a = last.b => last.out = last.a
        /\ last.out = Span(last.b, last.a)
        /\ \A t \in Scalars :
              (Contains(last.a, t) \/ Contains(last.b, t)) => Contains(last.out, t)
        /\ \A h \in Dense :
              (ContainsDense(last.a, h) \/ ContainsDense(last.b, h))
                  => ContainsDense(last.out, h)
        /\ NonEmpty(last.out)

\* C7 witness: the operands share the right limit with different runtime kinds
C7_Witness ==
    /\ last.op = "span"
    /\ last.a.right.limit = last.b.right.limit
    /\ last.a.right.bound_type = "BoundType::Exclusive"
    /\ last.b.right.bound_type = "BoundType::Inclusive"
    /\ last.out.right = last.b.right

\* C8: includes is a superset test: a.includes(x) only if every probe in x is in
\* a (also when the runtime kinds of a and x differ), a.includes(a.span(x)) only
\* if x is a subset of a, and a.includes(a).
C8_IncludesIsSuperset ==
    last.op = "includes" =>
        /\ last.out =>
              /\ \A t \in Scalars : Contains(last.b, t) => Contains(last.a, t)
              /\ \A h \in Dense : ContainsDense(last.b, h) => ContainsDense(last.a, h)
        /\ Includes(last.a, Span(last.a, last.b)) =>
              \A h \in Dense : ContainsDense(last.b, h) => ContainsDense(last.a, h)
        /\ last.a = last.b => last.out

\* C9: gap(a, b) is new(a.right.flip(), b.left.flip()) when non-empty, else
\* new(b.right.flip(), a.left.flip()) when non-empty, else None; it is None when
\* a and b share a point or touch without a gap, and Some exactly when some point
\* lies strictly between them.
C9_Gap ==
    last.op = "gap" =>
        /\ last.out =
              IF IsValidInterval(Flip(last.a.right), Flip(last.b.left))
              THEN Some(Interval(Flip(last.a.right), Flip(last.b.left)))
              ELSE IF IsValidInterval(Flip(last.b.right), Flip(last.a.left))
              THEN Some(Interval(Flip(last.b.right), Flip(last.a.left)))
              ELSE None
        /\ (\E h \in Dense : ContainsDense(last.a, h) /\ ContainsDense(last.b, h))
              => last.out = None
        /\ IsSome(last.out) <=>
              \E h \in Dense :
                  StrictlyBetween(last.a, last.b, h) \/ StrictlyBetween(last.b, last.a, h)

\* C9 witness: the single point between [0, 1) and (1, 2) is the gap [1, 1]
C9_Witness ==
    /\ last.op = "gap"
    /\ last.a = Interval(Bound(0, "BoundType::Inclusive"), Bound(1, "BoundType::Exclusive"))
    /\ last.b = Interval(Bound(1, "BoundType::Exclusive"), Bound(2, "BoundType::Exclusive"))
    /\ last.out = Some(Interval(Bound(1, "BoundType::Inclusive"), Bound(1, "BoundType::Inclusive")))

\* two right half-open intervals [p, q) and [r, s) with q < r
C10_Case ==
    /\ last.op = "gap"
    /\ TypeOfInterval(last.a) = <<"Inclusive", "Exclusive">>
    /\ TypeOfInterval(last.b) = <<"Inclusive", "Exclusive">>
    /\ last.a.right.limit < last.b.left.limit

\* C10 as stated: the gap of [p, q) and [r, s) with q < r is the open interval
\* (q, r), both bound kinds Exclusive.
C10_Original ==
    C10_Case =>
        last.out = Some(Interval(Bound(last.a.right.limit, "Exclusive"),
                                 Bound(last.b.left.limit, "Exclusive")))

\* C10 amended: the gap of [p, q) and [r, s) with q < r is the right half-open
\* interval [q, r): lower bound Inclusive at q, upper bound Exclusive at r.
C10_Amended ==
    C10_Case =>
        last.out = Some(Interval(Bound(last.a.right.limit, "Inclusive"),
                                 Bound(last.b.left.limit, "Exclusive")))

\* C10 witness: the gap of [0, 1) and [2, 3) was taken
C10_Witness ==
    /\ C10_Case
    /\ last.a = Interval(Bound(0, "Inclusive"), Bound(1, "Exclusive"))
    /\ last.b = Interval(Bound(2, "Inclusive"), Bound(3, "Exclusive"))
    /\ IsSome(last.out)

\* every point of x is below every point of y
Before(x, y) ==
    \A h \in Dense : \A g \in Dense :
        (ContainsDense(x, h) /\ ContainsDense(y, g)) => h < g

\* C11: a.union(b) carries the span and the gap of a and b; when the gap is Some,
\* into_iter yields exactly two intervals, the operand that lies below first and
\* the other operand second, each with its own limits and kinds; when the gap is
\* None it yields exactly the span.
C11_UnionRoundTrip ==
    last.op = "union" =>
        /\ last.union.span.left \in {last.a.left, last.b.left}
        /\ last.union.span.right \in {last.a.right, last.b.right}
        /\ \A h \in Dense :
              (ContainsDense(last.a, h) \/ ContainsDense(last.b, h))
                  => ContainsDense(last.union.span, h)
        /\ IsSome(last.union.gap) <=>
              \E h \in Dense :
                  StrictlyBetween(last.a, last.b, h) \/ StrictlyBetween(last.b, last.a, h)
        /\ IsSome(last.union.gap) =>
              /\ Len(last.out) = 2
              /\ {last.out[1], last.out[2]} = {last.a, last.b}
              /\ Before(last.out[1], last.out[2])
              /\ \A h \in Dense :
                    ContainsDense(last.union.gap.val, h) <=>
                        /\ ContainsDense(last.union.span, h)
                        /\ ~ContainsDense(last.out[1], h)
                        /\ ~ContainsDense(last.out[2], h)
        /\ ~IsSome(last.union.gap) => last.out = << last.union.span >>

\* C11 witness: the receiver lies above the argument and the two pieces come back
\* with the argument first
C11_Witness ==
    /\ last.op = "union"
    /\ Len(last.out) = 2
    /\ last.a # last.b
    /\ last.out = << last.b, last.a >>
    /\ TypeOfInterval(last.a) = <<"BoundType", "BoundType">>

\* C12: dilate(delta) moves the lower bound down and the upper bound up by delta
\* and keeps both kinds; when the moved bounds form an empty interval the call
\* reports the empty result to the caller and does not panic.
C12_DilateNeverPanics ==
    last.op = "dilate" =>
        LET l == Bound(last.a.left.limit - last.delta, last.a.left.bound_type)
            r == Bound(last.a.right.limit + last.delta, last.a.right.bound_type)
        IN  /\ last.out.tag # "Panic"
            /\ (LeftContains(l, r.limit) /\ RightContains(r, l.limit))
                  => last.out = Return(Interval(l, r))

Min2(x, y) == IF x <= y THEN x ELSE y
Max2(x, y) == IF x <= y THEN y ELSE x

\* C13: try_between(x, y) equals try_between(y, x); when Some its lower limit is
\* min(x, y) and its upper limit max(x, y) with the requested kinds; it is None
\* exactly when x = y and a requested kind is Exclusive, so the closed kind never
\* fails.
C13_TryBetweenSymmetric ==
    last.op = "try_between" =>
        /\ last.out = TryBetween(last.y, last.x, last.kl, last.kr)
        /\ IsSome(last.out) =>
              last.out.val = Interval(Bound(Min2(last.x, last.y), last.kl),
                                      Bound(Max2(last.x, last.y), last.kr))
        /\ (last.out = None) <=>
              /\ last.x = last.y
              /\ ~(IsInclusive(last.kl) /\ IsInclusive(last.kr))
        /\ (last.kl = "Inclusive" /\ last.kr = "Inclusive") => IsSome(last.out)

\* C13 witness: the greater value was passed first and the bounds were swapped
C13_Witness ==
    /\ last.op = "try_between"
    /\ last.x > last.y
    /\ IsSome(last.out)
    /\ last.out.val.left.limit = last.y
    /\ last.kl = "Inclusive"
    /\ last.kr = "Exclusive"

\* the values of a sequence
ItemsOf(items) == { items[i] : i \in 1..Len(items) }

\* the sequence items read in the order p
Permuted(items, p) == [i \in 1..Len(items) |-> items[p[i]]]

\* C14: hull_many returns None on an empty sequence; on a non-empty sequence with
\* closed kinds it returns [m, M], m the least and M the greatest of the values,
\* whatever the order of the values.
C14_HullMany ==
    last.op = "hull_many" =>
        /\ Len(last.items) = 0 => last.out = None
        /\ (Len(last.items) > 0 /\ last.kl = "Inclusive" /\ last.kr = "Inclusive") =>
              /\ IsSome(last.out)
              /\ last.out.val.left = Bound(last.out.val.left.limit, "Inclusive")
              /\ last.out.val.right = Bound(last.out.val.right.limit, "Inclusive")
              /\ last.out.val.left.limit \in ItemsOf(last.items)
              /\ last.out.val.right.limit \in ItemsOf(last.items)
              /\ \A x \in ItemsOf(last.items) :
                    last.out.val.left.limit <= x /\ x <= last.out.val.right.limit
              /\ \A p \in Permutations(1..Len(last.items)) :
                    HullMany(Permuted(last.items, p), last.kl, last.kr) = last.out

\* C14 witness: four values in the order of 3, 9, 2, 5 give the closed hull
C14_Witness ==
    /\ last.op = "hull_many"
    /\ last.items = <<1, 3, 0, 2>>
    /\ last.out = Some(Interval(Bound(0, "Inclusive"), Bound(3, "Inclusive")))

\* r has the least left bound and the greatest right bound of the items
IsSpanOf(r, items) ==
    /\ r.left \in { i.left : i \in ItemsOf(items) }
    /\ r.right \in { i.right : i \in ItemsOf(items) }
    /\ \A i \in ItemsOf(items) : Le("Left", r.left, i.left) /\ Le("Right", i.right, r.right)

\* C15: span_many returns None on an empty sequence and otherwise the fold of span
\* over the items, which has the least left and the greatest right bound of the
\* items, is the same for every permutation of the items and contains every
\* point of every item; the sum of the intervals into Nullable<Interval> is
\* exactly that result, NULL for an empty iterator.
C15_SpanMany ==
    /\ last.op = "span_many" =>
          /\ Len(last.items) = 0 => last.out = None
          /\ Len(last.items) > 0 =>
                /\ IsSome(last.out)
                /\ IsSpanOf(last.out.val, last.items)
                /\ NonEmpty(last.out.val)
                /\ \A p \in Permutations(1..Len(last.items)) :
                      SpanMany(Permuted(last.items, p)) = last.out
                /\ \A i \in ItemsOf(last.items) :
                      /\ \A t \in Scalars : Contains(i, t) => Contains(last.out.val, t)
                      /\ \A h \in Dense :
                            ContainsDense(i, h) => ContainsDense(last.out.val, h)
    /\ last.op = "sum" =>
          /\ Len(last.items) = 0 => last.out = NULL
          /\ Len(last.items) > 0 =>
                /\ last.out = NullableFrom(Some(last.out.nullable.val))
                /\ IsSpanOf(last.out.nullable.val, last.items)

\* C15 witness: three different intervals over one pair of limits whose runtime
\* kinds differ on both sides; the closed interval is their span
C15_Witness ==
    /\ last.op = "span_many"
    /\ last.items = << Interval(Bound(0, "BoundType::Exclusive"), Bound(1, "BoundType::Exclusive")),
                       Interval(Bound(0, "BoundType::Inclusive"), Bound(1, "BoundType::Exclusive")),
                       Interval(Bound(0, "BoundType::Exclusive"), Bound(1, "BoundType::Inclusive")) >>
    /\ last.out = Some(Interval(Bound(0, "BoundType::Inclusive"), Bound(1, "BoundType::Inclusive")))

\* C16: a.overlaps(b) is a.intersection(b).is_some(), which is that a and b share
\* a point; overlaps is symmetric and reflexive, and two right half-open
\* intervals that touch, as [0, 3) and [3, 5), do not overlap.
C16_OverlapsIsIntersection ==
    last.op = "overlaps" =>
        /\ last.out = IsSome(Intersection(last.a, last.b))
        /\ last.out = \E h \in Dense : ContainsDense(last.a, h) /\ ContainsDense(last.b, h)
        /\ last.out = Overlaps(last.b, last.a)
        /\ last.a = last.b => last.out
        /\ ( /\ TypeOfInterval(last.a) = <<"Inclusive", "Exclusive">>
             /\ last.a.right.limit = last.b.left.limit ) => ~last.out

\* C16 witness: [0, 1) and [1, 3) touch and do not overlap
C16_Witness ==
    /\ last.op = "overlaps"
    /\ last.a = Interval(Bound(0, "Inclusive"), Bound(1, "Exclusive"))
    /\ last.b = Interval(Bound(1, "Inclusive"), Bound(3, "Exclusive"))
    /\ last.out = FALSE

\* C17: difference is set difference: for right half-open a and b, a.difference(b)
\* yields at most two intervals, each containing only points of a, and a point is
\* in a yielded interval exactly when it is in a and not in b.
C17_DifferenceIsSetDifference ==
    (last.op = "difference" /\ TypeOfInterval(last.a) = <<"Inclusive", "Exclusive">>) =>
        /\ Cardinality(last.made) <= 2
        /\ \A d \in last.made : \A h \in Dense :
              ContainsDense(d, h) => ContainsDense(last.a, h)
        /\ \A h \in Dense :
              (\E d \in last.made : ContainsDense(d, h)) <=>
                  (ContainsDense(last.a, h) /\ ~ContainsDense(last.b, h))

\* C18: minimum() of an integer lower bound is its limit if Inclusive and limit + 1
\* if Exclusive, the least integer the bound admits; maximum() of an integer upper
\* bound is its limit if Inclusive and limit - 1 if Exclusive, the greatest
\* integer the bound admits; a marker type and the runtime enum of the same kind
\* give the same result.
C18_IntegerMinMax ==
    /\ last.op = "minimum" =>
          /\ last.out = IF IsInclusive(last.bound.bound_type)
                        THEN last.bound.limit ELSE last.bound.limit + 1
          /\ \A t \in Scalars : LeftContains(last.bound, t) <=> last.out <= t
          /\ last.bound.bound_type \in StaticKinds =>
                last.out = Minimum(IntoGeneralBound(last.bound))
    /\ last.op = "maximum" =>
          /\ last.out = IF IsInclusive(last.bound.bound_type)
                        THEN last.bound.limit ELSE last.bound.limit - 1
          /\ \A t \in Scalars : RightContains(last.bound, t) <=> t <= last.out
          /\ last.bound.bound_type \in StaticKinds =>
                last.out = Maximum(IntoGeneralBound(last.bound))

\* C18 witness: the maximum of the upper bound of a marker-typed [ , 2) is 1
C18_Witness ==
    /\ last.op = "maximum"
    /\ last.bound = Bound(2, "Exclusive")
    /\ last.out = 1

\* C19: (s..e).try_into() is Ok([s, e)) with left limit s and right limit e when
\* s < e and Err(IntervalIsEmpty) when s >= e; (s..=e).try_into() is Ok([s, e])
\* when s <= e and Err(IntervalIsEmpty) when s > e; an interval obtained this way
\* converts back into the range it came from.
C19_RangeConversion ==
    /\ last.op = "try_from_range" =>
          /\ last.r.start < last.r.end =>
                /\ last.out = Ok(Interval(Bound(last.r.start, "Inclusive"),
                                          Bound(last.r.end, "Exclusive")))
                /\ last.back = Some(last.r)
          /\ last.r.start >= last.r.end =>
                last.out = Err("IntervalIsEmpty") /\ last.made = {}
    /\ last.op = "try_from_range_inclusive" =>
          /\ last.r.start <= last.r.end =>
                /\ last.out = Ok(Interval(Bound(last.r.start, "Inclusive"),
                                          Bound(last.r.end, "Inclusive")))
                /\ last.back = Some(last.r)
          /\ last.r.start > last.r.end =>
                last.out = Err("IntervalIsEmpty") /\ last.made = {}

\* C19 witness: the range 2..2 is refused as empty
C19_Witness ==
    /\ last.op = "try_from_range"
    /\ last.r = Range(2, 2)
    /\ last.out = Err("IntervalIsEmpty")

C21_FlipInvolution ==
    last.op = "flip" =>
        /\ last.out.limit = last.bound.limit
        /\ IsInclusive(last.out.bound_type) = ~IsInclusive(last.bound.bound_type)
        /\ TypeOf(last.out.bound_type) \in
              IF last.bound.bound_type \in BoundType
              THEN {"BoundType"} ELSE StaticKinds \ {last.bound.bound_type}
        /\ last.out_side # last.side
        /\ last.back = last.bound /\ last.back_side = last.side
        /\ \A t \in Scalars :
              SideContains(last.side, last.bound, t)
                  = ~SideContains(last.out_side, last.out, t)
        /\ \A h \in Dense :
              SideContains(last.side, CastBound(last.bound), h)
                  = ~SideContains(last.out_side, CastBound(last.out), h)

\* C21 witness: an upper bound of runtime kind Exclusive became an Inclusive lower
\* bound at the same limit
C21_Witness ==
    /\ last.op = "flip"
    /\ last.side = "Right"
    /\ last.bound = Bound(2, "BoundType::Exclusive")
    /\ last.out_side = "Left"
    /\ last.out = Bound(2, "BoundType::Inclusive")

\* the enum variant named as the marker type k
SameNamed(k) == IF k = "Inclusive" THEN "BoundType::Inclusive" ELSE "BoundType::Exclusive"

\* Option::map(into_general)
GeneralOpt(o) == IF IsSome(o) THEN Some(IntoGeneralInterval(o.val)) ELSE None

\* C22: into_general keeps both limits and turns each marker type into the enum
\* variant of the same name; contains(t) is the same before and after for every
\* probe; and intersection, span and gap of the generalized intervals are the
\* generalized intersection, span and gap of the marker-typed intervals.
C22_GeneralizationLossless ==
    last.op = "into_general" =>
        /\ last.out.left = Bound(last.a.left.limit, SameNamed(last.a.left.bound_type))
        /\ last.out.right = Bound(last.a.right.limit, SameNamed(last.a.right.bound_type))
        /\ \A t \in Scalars : Contains(last.out, t) = Contains(last.a, t)
        /\ \A h \in Dense : ContainsDense(last.out, h) = ContainsDense(last.a, h)
        /\ Intersection(last.out, last.outb) = GeneralOpt(Intersection(last.a, last.b))
        /\ Span(last.out, last.outb) = IntoGeneralInterval(Span(last.a, last.b))
        /\ Gap(last.out, last.outb) = GeneralOpt(Gap(last.a, last.b))

\* C22 witness: [0, 1) and [2, 3) were generalized; they have a gap and no
\* intersection
C22_Witness ==
    /\ last.op = "into_general"
    /\ last.a = Interval(Bound(0, "Inclusive"), Bound(1, "Exclusive"))
    /\ last.b = Interval(Bound(2, "Inclusive"), Bound(3, "Exclusive"))
    /\ last.out = Interval(Bound(0, "BoundType::Inclusive"), Bound(1, "BoundType::Exclusive"))
    /\ IsSome(Gap(last.out, last.outb))

\* the number of present parts of a pair of options that contain the dense point h
PartsContaining(pair, h) ==
    Cardinality({ n \in {1, 2} : IsSome(pair[n]) /\ ContainsDense(pair[n].val, h) })

\* C23: for s = [p, q) and every t, try_split_at(t) returns parts such that a
\* point is in s exactly when exactly one present part contains it, and no part
\* contains a point outside s; the result is (None, Some(s)) for t <= p,
\* (Some(s), None) for t >= q and ([p, t), [t, q)) otherwise; split_at(t) panics
\* exactly when t <= p or t >= q and otherwise returns the same two parts.
C23_SplitPartitions ==
    /\ last.op = "try_split_at" =>
          /\ \A h \in Dense :
                PartsContaining(last.out, h) = IF ContainsDense(last.a, h) THEN 1 ELSE 0
          /\ last.t <= last.a.left.limit => last.out = <<None, Some(last.a)>>
          /\ last.t >= last.a.right.limit => last.out = <<Some(last.a), None>>
          /\ (last.a.left.limit < last.t /\ last.t < last.a.right.limit) =>
                last.out = << Some(Interval(last.a.left, Bound(last.t, "Exclusive"))),
                              Some(Interval(Bound(last.t, "Inclusive"), last.a.right)) >>
    /\ last.op = "split_at" =>
          /\ (last.out.tag = "Panic") <=>
                (last.t <= last.a.left.limit \/ last.t >= last.a.right.limit)
          /\ last.out.tag = "Return" =>
                last.out.val = << Interval(last.a.left, Bound(last.t, "Exclusive")),
                                  Interval(Bound(last.t, "Inclusive"), last.a.right) >>

\* C23 witness: try_split_at at the right limit of [0, 2) gives the interval back
\* as the lower part
C23_Witness ==
    /\ last.op = "try_split_at"
    /\ last.a = Interval(Bound(0, "Inclusive"), Bound(2, "Exclusive"))
    /\ last.t = 2
    /\ last.out = <<Some(last.a), None>>

\* the sequence s is strictly ascending
Ascending(s) == \A n \in 1..(Len(s) - 1) : s[n] < s[n + 1]

\* C24: into_iter of an integer interval, of marker or runtime kinds, yields
\* exactly the integers the interval contains, each once, in ascending order; an
\* interval that contains no integer, such as (0, 1), yields nothing.
C24_IterationEnumeratesMembers ==
    last.op = "into_iter" =>
        /\ Ascending(last.out)
        /\ \A t \in Scalars : (t \in ItemsOf(last.out)) <=> Contains(last.a, t)
        /\ ItemsOf(last.out) \subseteq Scalars
        /\ (\A t \in Scalars : ~Contains(last.a, t)) => last.out = <<>>

\* C24 witness: (0, 3] of runtime kinds yields 1, 2, 3
C24_Witness ==
    /\ last.op = "into_iter"
    /\ last.a = Interval(Bound(0, "BoundType::Exclusive"), Bound(3, "BoundType::Inclusive"))
    /\ last.out = <<1, 2, 3>>

\* the sequence first, first + d, first + 2 * d, ... of exactly the values v of
\* that progression, within the probes, for which Keeps(v) holds from first on
IsProgression(s, first, d, kept) ==
    /\ \A n \in 1..Len(s) : s[n] = first + (n - 1) * d
    /\ ItemsOf(s) \subseteq kept
    /\ (first + Len(s) * d) \notin kept

\* the least and the greatest integer member of the interval i
MinOf(i) == IF IsInclusive(i.left.bound_type) THEN i.left.limit ELSE i.left.limit + 1
MaxOf(i) == IF IsInclusive(i.right.bound_type) THEN i.right.limit ELSE i.right.limit - 1

\* C25 as stated: step_by starts at min(), the left limit if Inclusive and the left
\* limit + 1 if Exclusive, yields min(), min() + step, ... ascending up to the
\* last such value <= max(), every value contained in the interval; step_rev_by
\* is the mirror image from max().
C25_Original ==
    /\ last.op = "step_by" =>
          /\ IsProgression(last.out, MinOf(last.a), last.step,
                           { v \in Int : v <= MaxOf(last.a) })
          /\ \A n \in 1..Len(last.out) : Contains(last.a, last.out[n])
    /\ last.op = "step_rev_by" =>
          /\ IsProgression(last.out, MaxOf(last.a), 0 - last.step,
                           { v \in Int : v >= MinOf(last.a) })
          /\ \A n \in 1..Len(last.out) : Contains(last.a, last.out[n])

\* C25 amended: step_by starts at the left limit if it is Inclusive and at the left
\* limit + step if it is Exclusive, and yields that value, that value + step, ...
\* ascending for as long as the upper bound admits the value; every value yielded
\* is contained in the interval; step_rev_by is the mirror image, from the right
\* limit if Inclusive and the right limit - step if Exclusive.  With step 1 the
\* first values are min() and max().
C25_Amended ==
    /\ last.op = "step_by" =>
          /\ IsProgression(last.out,
                           IF IsInclusive(last.a.left.bound_type)
                           THEN last.a.left.limit ELSE last.a.left.limit + last.step,
                           last.step, { v \in Int : v <= MaxOf(last.a) })
          /\ \A n \in 1..Len(last.out) : Contains(last.a, last.out[n])
          /\ (last.step = 1 /\ Len(last.out) > 0) => last.out[1] = MinOf(last.a)
    /\ last.op = "step_rev_by" =>
          /\ IsProgression(last.out,
                           IF IsInclusive(last.a.right.bound_type)
                           THEN last.a.right.limit ELSE last.a.right.limit - last.step,
                           0 - last.step, { v \in Int : v >= MinOf(last.a) })
          /\ \A n \in 1..Len(last.out) : Contains(last.a, last.out[n])
          /\ (last.step = 1 /\ Len(last.out) > 0) => last.out[1] = MaxOf(last.a)

\* C25 witness: (0, 3) stepped by 2 yields 2 alone, and not min() = 1
C25_Witness ==
    /\ last.op = "step_by"
    /\ last.a = Interval(Bound(0, "Exclusive"), Bound(3, "Exclusive"))
    /\ last.step = 2
    /\ last.out = <<2>>

\* how many of the three intervals a, b and g have the dense point h as a member
MembersAt(x, y, g, h) ==
    Cardinality({ n \in 1..3 : ContainsDense(<<x, y, g>>[n], h) })

\* C26: when a.gap(b) is Some(g), g is disjoint from a and from b, and a point
\* is a member of a.span(b) if and only if it is a member of exactly one of a, b
\* and g; when a.gap(b) is None, every member of a.span(b) is a member of a or b.
C26_GapFillsHole ==
    last.op = "gap" =>
        \A h \in Dense :
            IF IsSome(last.out)
            THEN /\ ~(ContainsDense(last.out.val, h) /\ ContainsDense(last.a, h))
                 /\ ~(ContainsDense(last.out.val, h) /\ ContainsDense(last.b, h))
                 /\ ContainsDense(Span(last.a, last.b), h)
                       <=> MembersAt(last.a, last.b, last.out.val, h) = 1
            ELSE ContainsDense(Span(last.a, last.b), h)
                     => (ContainsDense(last.a, h) \/ ContainsDense(last.b, h))

\* C26 witness: the gap of [0, 1) and (2, 3] is [1, 2]
C26_Witness ==
    /\ last.op = "gap"
    /\ last.a = Interval(Bound(0, "BoundType::Inclusive"), Bound(1, "BoundType::Exclusive"))
    /\ last.b = Interval(Bound(2, "BoundType::Exclusive"), Bound(3, "BoundType::Inclusive"))
    /\ last.out = Some(Interval(Bound(1, "BoundType::Inclusive"), Bound(2, "BoundType::Inclusive")))

\* C27: a.gap(b) = b.gap(a), and the two candidate constructions, from
\* a.right.flip() to b.left.flip() and from b.right.flip() to a.left.flip(),
\* are never both non-empty.
C27_GapSymmetric ==
    last.op = "gap" =>
        /\ last.out = Gap(last.b, last.a)
        /\ ~(/\ NonEmpty(Interval(Flip(last.a.right), Flip(last.b.left)))
             /\ NonEmpty(Interval(Flip(last.b.right), Flip(last.a.left))))

\* C27 witness: [2, 3] is to the right of [0, 1], so that the second ordering
\* is the one that yields the gap (1, 2)
C27_Witness ==
    /\ last.op = "gap"
    /\ last.a = Interval(Bound(2, "Inclusive"), Bound(3, "Inclusive"))
    /\ last.b = Interval(Bound(0, "Inclusive"), Bound(1, "Inclusive"))
    /\ last.out = Some(Interval(Bound(1, "Exclusive"), Bound(2, "Exclusive")))

\* C28: hull_many covers its inputs for every combination of kinds: on a non-empty
\* sequence of values it returns Some(h) for each of the kinds Inclusive and
\* Exclusive of either bound, and h contains every value of the sequence.
C28_HullManyCovers ==
    (last.op = "hull_many" /\ Len(last.items) > 0) =>
        /\ IsSome(last.out)
        /\ \A x \in ItemsOf(last.items) : Contains(last.out.val, x)

\* C29: for every constructed integer interval min() <= max(), min() and max() are
\* members of the interval, min() the least and max() the greatest, and both are
\* values of the scalar type that the limits are drawn from (limit + 1 and
\* limit - 1 do not leave it).
C29_MinMaxAreMembers ==
    last.op = "min_max" =>
        /\ last.min <= last.max
        /\ Contains(last.a, last.min)
        /\ Contains(last.a, last.max)
        /\ \A t \in Scalars : Contains(last.a, t) => (last.min <= t /\ t <= last.max)
        /\ last.min \in Limits
        /\ last.max \in Limits

\* C30: the interval returned by cast, and by try_cast when it returns one, of a
\* valid interval is non-empty again: its left bound admits its right limit and
\* its right bound admits its left limit, also when a truncating conversion
\* maps two distinct limits to the same value.
C30_CastKeepsNonEmpty ==
    /\ last.op = "cast" => NonEmpty(last.out)
    /\ (last.op = "try_cast" /\ IsSome(last.out)) => NonEmpty(last.out.val)

====
